---- MODULE Spec2Model ----
(***************************************************************************)
(* State-machine model of the MLX sidecar server                           *)
(* (src/jarvis-app/src-tauri/sidecars/mlx-server/server.py).               *)
(*                                                                         *)
(* One step of the model is one iteration of MLXServer.run(): a line is    *)
(* read from stdin, parsed, dispatched by handle_command to its handler,   *)
(* and the response lines are written to stdout.  The outcomes of the      *)
(* external collaborators (model loaders, audio decoder, chat template,    *)
(* generation, download) are chosen nondeterministically.                  *)
(*                                                                         *)
(* Python values are tagged records: None is [t |-> "null"], a str is      *)
(* [t |-> "str", v |-> <<tokens>>], a list is [t |-> "list", v |-> <<..>>],*)
(* a number is [t |-> "num", v |-> n].  A string is a sequence of tokens   *)
(* (one token is one or more characters that no operation here splits).    *)
(***************************************************************************)
EXTENDS Integers, Sequences, FiniteSets, TLC

\* ------------------------------------------------------------------ bounds
\* Number of lines on stdin before end-of-input.
MaxLines == 3

\* ------------------------------------------------------------ Python values
None == [t |-> "null"]
Str(s) == [t |-> "str", v |-> s]
List(l) == [t |-> "list", v |-> l]
Num(n) == [t |-> "num", v |-> n]

\* Python truthiness (`if not x`, `if x`).
Truthy(x) ==
    CASE x.t = "null" -> FALSE
      [] x.t = "num" -> x.v # 0
      [] OTHER -> x.v # <<>>

\* dict.get(key) / dict.get(key, default) on a JSON object (a TLA+ record).
Get(d, k, default) == IF k \in DOMAIN d THEN d[k] ELSE default

\* str(x) inside an f-string, as a token sequence.
PyStr(x) ==
    CASE x.t = "null" -> <<"None">>
      [] x.t = "str" -> x.v
      [] OTHER -> <<"<repr>">>

\* `item in list` for a list of strings.
Contains(seq, x) == \E i \in 1..Len(seq) : seq[i] = x

\* Whether sub occurs in s as a contiguous run of tokens.
Embeds(s, sub) ==
    \E i \in 0..(Len(s) - Len(sub)) :
        \A j \in 1..Len(sub) : s[i + j] = sub[j]

\* str.endswith
EndsWith(s, suf) ==
    /\ Len(s) >= Len(suf)
    /\ \A j \in 1..Len(suf) : s[Len(s) - Len(suf) + j] = suf[j]

\* Mutant of LastSegment: the path is not split.
LastSegment_WholePath(s) == s

\* str.split("/")[-1]: the tokens after the last "/" token.
RECURSIVE LastSegment(_)
LastSegment(s) ==
    IF s = <<>> THEN <<>>
    ELSE IF s[Len(s)] = "/" THEN <<>>
    ELSE LastSegment(SubSeq(s, 1, Len(s) - 1)) \o <<s[Len(s)]>>

\* -------------------------------------------------------------------- state
VARIABLES
    model,           \* self.model: None or the handle the loader returned
    tokenizer,       \* self.tokenizer: None or the handle the loader returned
    model_name,      \* self.model_name: None or a str
    capabilities,    \* self.capabilities: a list of strings
    OMNI_AVAILABLE,  \* whether mlx_lm_omni could be imported (fixed per process)
    queue,           \* extended_embedding_queue of the resident model object
    pc,              \* "startup" during the module-level checks, "exited" when
                     \* they end the process, "reading" inside the loop of
                     \* run(), "shutdown" after the break, "eof" once stdin is
                     \* exhausted
    nread,           \* number of stdin lines consumed so far
    line,            \* the line consumed by the latest iteration
    out,             \* the stdout lines written by the latest iteration
    calls,           \* the external calls made by the latest iteration
    loaded_with,     \* history: the capabilities declared by the load-model
                     \* command that loaded the resident model
    summary,         \* the caller's running context: updated_summary of the
                     \* latest copilot-analyze response
    host,            \* the machine the process runs on: platform.machine()
                     \* and whether the MLX modules can be imported
    exit_status      \* None while the process runs, then its exit status

vars == <<model, tokenizer, model_name, capabilities, OMNI_AVAILABLE, queue,
          pc, nread, line, out, calls, loaded_with, summary, host, exit_status>>

\* The Session as one record.
Session ==
    [model |-> model, tokenizer |-> tokenizer, model_name |-> model_name,
     capabilities |-> capabilities]

\* What a handler hands back: its response, the Session and the embedding
\* queue it leaves behind, and the external calls it made.
\* printed holds the lines a handler writes to stdout itself.
Result(resp, S, q, c) ==
    [resp |-> resp, S |-> S, q |-> q, calls |-> c, printed |-> <<>>]

ErrorResponse(command, msg) ==
    [type |-> "error", command |-> command, error |-> msg]

\* ------------------------------------------------------------ module startup
\* Mutant of ModuleStartup: the platform is not checked.
ModuleStartup_NoPlatformCheck(h) ==
    IF ~h.mlx_imports
    THEN [out |-> <<[type |-> "error",
                     error |-> <<"Failed to import MLX dependencies: ", "no module">>]>>,
          exit |-> Num(1)]
    ELSE [out |-> <<>>, exit |-> None]

\* The module-level checks that run before main: the platform check, then
\* the imports of mlx, mlx_lm and huggingface_hub.  Gives the lines written
\* to stdout and the status of sys.exit (None when the module goes on).
ModuleStartup(h) ==
    IF h.machine # "arm64"
    THEN [out |-> <<[type |-> "error",
                     error |-> <<"MLX requires Apple Silicon (arm64)">>]>>,
          exit |-> Num(1)]
    ELSE IF ~h.mlx_imports
    THEN [out |-> <<[type |-> "error",
                     error |-> <<"Failed to import MLX dependencies: ", "no module">>]>>,
          exit |-> Num(1)]
    ELSE [out |-> <<>>, exit |-> None]

\* --------------------------------------------------------------- load_model
\* Mutant of LoaderOutcomes: a loader may return for any value.
LoaderOutcomes_AnyValue(model_path) == {"returns", "raises"}

\* The loaders resolve model_path as a filesystem path or repo id
\* (pathlib.Path(model_path)): for a value that is not a str they raise; for
\* a str they return or raise.
LoaderOutcomes(model_path) ==
    IF model_path.t = "str" THEN {"returns", "raises"} ELSE {"raises"}

\* Structure conventions of a loaded model object: the multimodal loader
\* returns a model whose text stack (and embedding queue) is under
\* model.thinker.model or under model.language_model.model; the text-only
\* loader returns a plain language model with neither.
OmniStructs == {"thinker", "language_model"}
LoaderStructs(caps_arg) ==
    IF caps_arg.t # "null" /\ Contains(caps_arg.v, "audio")
    THEN OmniStructs ELSE {"plain"}

ModelHandle(hid, loader, struct) ==
    [t |-> "model", id |-> hid, loader |-> loader, struct |-> struct]
TokenizerHandle(hid, loader) ==
    [t |-> "tokenizer", id |-> hid, loader |-> loader]

\* capabilities if capabilities is not None else ["text"]
DeclaredCapabilities(caps_arg) ==
    IF caps_arg.t # "null" THEN caps_arg.v ELSE <<"text">>

\* Mutant of UsesOmniLoader: the text loader is the silent fallback when
\* mlx_lm_omni is not available.
UsesOmniLoader_WhenAvailable(caps) == Contains(caps, "audio") /\ OMNI_AVAILABLE

\* if "audio" in self.capabilities: the multimodal loader, else the text one
UsesOmniLoader(caps) == Contains(caps, "audio")

\* MLXServer.load_model(model_path, capabilities).  outcome is what the
\* loader does, struct the structure of the model it returns, hid the
\* identity of the objects it returns.
load_model(model_path, caps_arg, outcome, struct, hid) ==
    LET caps == DeclaredCapabilities(caps_arg)
        \* self.capabilities is assigned before the loader is chosen
        S1 == [Session EXCEPT !.capabilities = caps]
        useOmni == UsesOmniLoader(caps)
        loader == IF useOmni THEN "mlx_lm_omni" ELSE "mlx_lm"
        call == <<[fn |-> "load", loader |-> loader, path |-> model_path,
                   outcome |-> outcome, hid |-> hid]>>
        \* self.model, self.tokenizer = <loader>(model_path)
        S2 == [S1 EXCEPT !.model = ModelHandle(hid, loader, struct),
                         !.tokenizer = TokenizerHandle(hid, loader)]
        \* self.model_name = model_path.split("/")[-1]
        S3 == [S2 EXCEPT !.model_name = Str(LastSegment(model_path.v))]
    IN  IF useOmni /\ ~OMNI_AVAILABLE
        THEN Result(ErrorResponse("load-model", <<"mlx-lm-omni not installed">>),
                    S1, queue, <<>>)
        ELSE IF outcome = "raises"
        THEN Result(ErrorResponse("load-model", <<"loader raised">>),
                    S1, queue, call)
        ELSE IF model_path.t # "str"
        THEN Result(ErrorResponse("load-model", <<"no attribute split">>),
                    S2, <<>>, call)
        ELSE Result([type |-> "response", command |-> "load-model",
                     success |-> TRUE, model_name |-> S3.model_name,
                     capabilities |-> S3.capabilities],
                    S3, <<>>, call)

\* ------------------------------------------------- model text and its parsing
\* Text generated by the model is a sequence of lines.  A line is a fence
\* marker (its stripped form starts with ```) or content; a content line
\* carries its text (src) and what json.loads makes of that text.
Invalid == [t |-> "invalid"]
Object(fields) == [t |-> "object", v |-> fields]
FenceLine(src) == [fence |-> TRUE, src |-> src, json |-> Invalid]
TextLine(src, json) == [fence |-> FALSE, src |-> src, json |-> json]

\* "\n".join(lines)
RECURSIVE JoinLines(_)
JoinLines(lines) ==
    IF lines = <<>> THEN <<>>
    ELSE IF Len(lines) = 1 THEN <<lines[1].src>>
    ELSE <<lines[1].src, "\n">> \o JoinLines(Tail(lines))

\* [l for l in lines if not l.strip().startswith("```")]
DropFenceLines(lines) == SelectSeq(lines, LAMBDA l : ~l.fence)

\* Mutant of StripFence: fence lines are left in the text.
StripFence_Keeps(lines) == lines

\* if response_text.startswith("```"): drop every fence line
StripFence(lines) ==
    IF lines # <<>> /\ lines[1].fence THEN DropFenceLines(lines) ELSE lines

\* json.loads(response_text): a single content line parses to its value;
\* anything else (no text, several lines, a fence marker left in the text)
\* raises JSONDecodeError.
JsonLoadsText(lines) ==
    IF Len(lines) = 1 /\ ~lines[1].fence THEN lines[1].json ELSE Invalid

\* ------------------------------------------------------- external collaborators
\* Outcomes of the calls an audio handler makes, in the order it makes them:
\* importing librosa/numpy, os.path.exists, decoding the file, the chat
\* template, generation.  stage names the first call that does not return
\* normally ("done" when all do); audio is the decoded sample sequence and
\* text the generated text, where the run gets that far.
AudioEnv(stage, audio, text) == [stage |-> stage, audio |-> audio, text |-> text]

\* The decoder call (librosa.load, or reading raw PCM) and what it gave.
DecodeCall(audio_path, env) ==
    [fn |-> "decode", path |-> audio_path,
     outcome |-> IF env.stage = "decode_raises" THEN "raises" ELSE "returns",
     samples |-> env.audio]

\* tokenizer.apply_chat_template(messages with audio): the multimodal
\* tokenizer encodes the audio and appends the embedding to the model's
\* extended_embedding_queue; a text tokenizer has no such queue.
QueueAfterTemplate(q, audio) ==
    IF model.loader = "mlx_lm_omni" THEN Append(q, audio) ELSE q

\* generate(): the forward pass takes the embedding at the head of the queue.
QueueAfterGenerate(q) == IF q # <<>> THEN Tail(q) ELSE q

\* apply_chat_template followed by generate; q is the queue when the prompt
\* is built.
Inference(prompt_text, audio, q, env, lib) ==
    LET tcall == [fn |-> "apply_chat_template", prompt |-> prompt_text,
                  audio |-> audio, queue |-> q]
        gcall == [fn |-> "generate", lib |-> lib,
                  outcome |-> IF env.stage = "generate_raises"
                              THEN "raises" ELSE "returns",
                  text |-> IF env.stage = "generate_raises"
                           THEN <<>> ELSE env.text]
        q1 == QueueAfterTemplate(q, audio)
    IN  IF env.stage = "template_raises"
        THEN [ok |-> FALSE, q |-> q, calls |-> <<tcall>>]
        ELSE IF env.stage = "generate_raises"
        THEN [ok |-> FALSE, q |-> q1, calls |-> <<tcall, gcall>>]
        ELSE [ok |-> TRUE, q |-> QueueAfterGenerate(q1), calls |-> <<tcall, gcall>>,
              text |-> env.text]

\* str.strip(): leading and trailing whitespace tokens removed.
IsSpace(tok) == tok \in {" ", "\n"}
RECURSIVE LStrip(_)
LStrip(s) == IF s # <<>> /\ IsSpace(s[1]) THEN LStrip(Tail(s)) ELSE s
RECURSIVE RStrip(_)
RStrip(s) ==
    IF s # <<>> /\ IsSpace(s[Len(s)]) THEN RStrip(SubSeq(s, 1, Len(s) - 1)) ELSE s
Strip(s) == RStrip(LStrip(s))

\* ------------------------------------------------------ generate_transcript
\* The queue-clearing step of generate_transcript: the embedding is looked
\* up under model.thinker.model, else under model.language_model.model.
TranscriptClearQueue(q) ==
    IF model.struct = "thinker" THEN <<>>
    ELSE IF model.struct = "language_model" THEN <<>>
    ELSE q

TranscriptPrompt == <<"Detect the language spoken. Transcribe word for word.">>

\* The structured-output parsing of generate_transcript, from the generated
\* text to the handler's response.
TranscriptParse(text) ==
    LET response_text == StripFence(text)
        raw == Strip(JoinLines(response_text))
        parsed == JsonLoadsText(response_text)
    IN  IF parsed.t = "invalid"
        THEN [type |-> "response", command |-> "generate-transcript",
              language |-> Str(<<"unknown">>), transcript |-> Str(raw)]
        ELSE IF parsed.t # "object"
        THEN ErrorResponse("generate-transcript",
                           <<"Transcription failed: ", "no attribute get">>)
        ELSE LET language == Get(parsed.v, "language", Str(<<"unknown">>))
                 transcript == Get(parsed.v, "transcript", Str(raw))
             IN  IF transcript.t # "str"
                 THEN ErrorResponse("generate-transcript",
                                    <<"Transcription failed: ", "no attribute strip">>)
                 ELSE [type |-> "response", command |-> "generate-transcript",
                       language |-> language,
                       transcript |-> Str(Strip(transcript.v))]

\* Mutant of TranscriptEmptyAudio: no language is reported.
TranscriptEmptyAudio_NoLanguage ==
    [type |-> "response", command |-> "generate-transcript",
     language |-> Str(<<>>), transcript |-> Str(<<>>)]

\* The response of generate_transcript for a segment of zero samples.
TranscriptEmptyAudio ==
    [type |-> "response", command |-> "generate-transcript",
     language |-> Str(<<"unknown">>), transcript |-> Str(<<>>)]

\* MLXServer.generate_transcript(audio_path)
generate_transcript(audio_path, env) ==
    LET cmd == "generate-transcript"
        fail(msg, q, c) == Result(ErrorResponse(cmd, msg), Session, q, c)
        decode == <<DecodeCall(audio_path, env)>>
        q0 == TranscriptClearQueue(queue)
        inf == Inference(TranscriptPrompt, env.audio, q0, env, "mlx_lm")
    IN  IF model = None THEN fail(<<"No model loaded">>, queue, <<>>)
        ELSE IF ~Contains(capabilities, "audio")
        THEN fail(<<"Loaded model does not support audio transcription">>, queue, <<>>)
        ELSE IF ~OMNI_AVAILABLE
        THEN fail(<<"mlx-lm-omni not installed">>, queue, <<>>)
        ELSE IF env.stage = "import_error"
        THEN fail(<<"Missing audio dependencies: ", "no module">>, queue, <<>>)
        ELSE IF env.stage = "not_found"
        THEN fail(<<"Audio file not found: ">> \o PyStr(audio_path), queue, <<>>)
        ELSE IF ~EndsWith(audio_path.v, <<".wav">>) /\ ~EndsWith(audio_path.v, <<".pcm">>)
        THEN fail(<<"Unsupported audio format: ">> \o PyStr(audio_path), queue, <<>>)
        ELSE IF env.stage = "decode_raises"
        THEN fail(<<"Transcription failed: ", "decode error">>, queue, decode)
        ELSE IF Len(env.audio) = 0
        THEN Result(TranscriptEmptyAudio, Session, queue, decode)
        ELSE IF ~inf.ok
        THEN fail(<<"Transcription failed: ", "backend error">>, inf.q,
                  decode \o inf.calls)
        ELSE Result(TranscriptParse(inf.text), Session, inf.q, decode \o inf.calls)

\* ---------------------------------------------------------- copilot_analyze
\* The queue-clearing step of copilot_analyze: the embedding is looked up
\* under model.language_model.model only.
CopilotClearQueue(q) ==
    IF model.struct = "language_model" THEN <<>> ELSE q

ContinuationHead == <<"Previous conversation summary:", "\n">>
ContinuationTail == <<"\n", "\n", "Analyze the new audio segment and provide:">>
InitialTemplate == <<"This is the start of a conversation. Analyze the audio and provide:">>

\* Mutant of CopilotPrompt: the initial template is used on every cycle.
CopilotPrompt_AlwaysInitial(context) == InitialTemplate

\* if context: continuation template with {context} substituted, else the
\* initial template.
CopilotPrompt(context) ==
    IF Truthy(context)
    THEN ContinuationHead \o PyStr(context) \o ContinuationTail
    ELSE InitialTemplate

EmptyStr == Str(<<>>)
EmptyList == List(<<>>)

\* Mutant of CopilotParse: an object that omits any field is answered with
\* every field at its default.
CopilotParse_AllOrNothing(text) ==
    LET response_text == StripFence(text)
        raw == Strip(JoinLines(response_text))
        parsed == JsonLoadsText(response_text)
        fields == {"new_content", "updated_summary", "key_points", "decisions",
                   "action_items", "open_questions", "suggested_questions",
                   "key_concepts"}
        v == IF parsed.t = "object" /\ fields \subseteq DOMAIN parsed.v
             THEN parsed.v ELSE [type |-> "none"]
    IN  IF parsed.t = "invalid"
        THEN [type |-> "response", command |-> "copilot-analyze",
              new_content |-> Str(raw), updated_summary |-> Str(raw),
              key_points |-> EmptyList, decisions |-> EmptyList,
              action_items |-> EmptyList, open_questions |-> EmptyList,
              suggested_questions |-> EmptyList, key_concepts |-> EmptyList]
        ELSE IF parsed.t # "object"
        THEN ErrorResponse("copilot-analyze",
                           <<"Co-Pilot analysis failed: ", "no attribute get">>)
        ELSE [type |-> "response", command |-> "copilot-analyze",
              new_content |-> Get(v, "new_content", EmptyStr),
              updated_summary |-> Get(v, "updated_summary", EmptyStr),
              key_points |-> Get(v, "key_points", EmptyList),
              decisions |-> Get(v, "decisions", EmptyList),
              action_items |-> Get(v, "action_items", EmptyList),
              open_questions |-> Get(v, "open_questions", EmptyList),
              suggested_questions |-> Get(v, "suggested_questions", EmptyList),
              key_concepts |-> Get(v, "key_concepts", EmptyList)]

\* The structured-output parsing of copilot_analyze.
CopilotParse(text) ==
    LET response_text == StripFence(text)
        raw == Strip(JoinLines(response_text))
        parsed == JsonLoadsText(response_text)
    IN  IF parsed.t = "invalid"
        THEN [type |-> "response", command |-> "copilot-analyze",
              new_content |-> Str(raw), updated_summary |-> Str(raw),
              key_points |-> EmptyList, decisions |-> EmptyList,
              action_items |-> EmptyList, open_questions |-> EmptyList,
              suggested_questions |-> EmptyList, key_concepts |-> EmptyList]
        ELSE IF parsed.t # "object"
        THEN ErrorResponse("copilot-analyze",
                           <<"Co-Pilot analysis failed: ", "no attribute get">>)
        ELSE [type |-> "response", command |-> "copilot-analyze",
              new_content |-> Get(parsed.v, "new_content", EmptyStr),
              updated_summary |-> Get(parsed.v, "updated_summary", EmptyStr),
              key_points |-> Get(parsed.v, "key_points", EmptyList),
              decisions |-> Get(parsed.v, "decisions", EmptyList),
              action_items |-> Get(parsed.v, "action_items", EmptyList),
              open_questions |-> Get(parsed.v, "open_questions", EmptyList),
              suggested_questions |-> Get(parsed.v, "suggested_questions", EmptyList),
              key_concepts |-> Get(parsed.v, "key_concepts", EmptyList)]

\* Mutant of CopilotEmptyAudio: the running context is dropped.
CopilotEmptyAudio_DropsContext(context) ==
    [type |-> "response", command |-> "copilot-analyze",
     new_content |-> Str(<<>>), updated_summary |-> Str(<<>>),
     key_points |-> List(<<>>), decisions |-> List(<<>>),
     action_items |-> List(<<>>), open_questions |-> List(<<>>),
     suggested_questions |-> List(<<>>), key_concepts |-> List(<<>>)]

\* The response of copilot_analyze for a segment of zero samples.
CopilotEmptyAudio(context) ==
    [type |-> "response", command |-> "copilot-analyze",
     new_content |-> EmptyStr, updated_summary |-> context,
     key_points |-> EmptyList, decisions |-> EmptyList,
     action_items |-> EmptyList, open_questions |-> EmptyList,
     suggested_questions |-> EmptyList, key_concepts |-> EmptyList]

\* MLXServer.copilot_analyze(audio_path, context)
copilot_analyze(audio_path, context, env) ==
    LET cmd == "copilot-analyze"
        fail(msg, q, c) == Result(ErrorResponse(cmd, msg), Session, q, c)
        decode == <<DecodeCall(audio_path, env)>>
        q0 == CopilotClearQueue(queue)
        inf == Inference(CopilotPrompt(context), env.audio, q0, env, "mlx_lm_omni")
    IN  IF model = None THEN fail(<<"No model loaded">>, queue, <<>>)
        ELSE IF ~Contains(capabilities, "audio")
        THEN fail(<<"Model does not support audio analysis">>, queue, <<>>)
        ELSE IF ~OMNI_AVAILABLE
        THEN fail(<<"mlx-lm-omni not installed">>, queue, <<>>)
        ELSE IF env.stage = "import_error"
        THEN fail(<<"Missing audio dependencies: ", "no module">>, queue, <<>>)
        ELSE IF env.stage = "not_found"
        THEN fail(<<"Audio file not found: ">> \o PyStr(audio_path), queue, <<>>)
        ELSE IF env.stage = "decode_raises"
        THEN fail(<<"Co-Pilot analysis failed: ", "decode error">>, queue, decode)
        ELSE IF Len(env.audio) = 0
        THEN Result(CopilotEmptyAudio(context), Session, queue, decode)
        ELSE IF ~inf.ok
        THEN fail(<<"Co-Pilot analysis failed: ", "backend error">>, inf.q,
                  decode \o inf.calls)
        ELSE Result(CopilotParse(inf.text), Session, inf.q, decode \o inf.calls)

\* ---------------------------------------------------------------- _parse_tags
\* The text handed to _parse_tags is a sequence of tokens: the characters
\* [ ] , " ' space and newline are tokens of their own, a word is one token.

\* Index of the first occurrence of tok in s at or after position i, else 0.
RECURSIVE IndexFrom(_, _, _)
IndexFrom(s, tok, i) ==
    IF i > Len(s) THEN 0
    ELSE IF s[i] = tok THEN i
    ELSE IndexFrom(s, tok, i + 1)

\* Index of the last occurrence of tok in s, else 0.
RECURSIVE LastIndex(_, _)
LastIndex(s, tok) ==
    IF s = <<>> THEN 0
    ELSE IF s[Len(s)] = tok THEN Len(s)
    ELSE LastIndex(SubSeq(s, 1, Len(s) - 1), tok)

\* Mutant of BracketSpan: the match is greedy, up to the last "]".
BracketSpan_Greedy(text) ==
    LET open == IndexFrom(text, "[", 1)
        close == IF open = 0 THEN 0 ELSE LastIndex(text, "]")
    IN  IF close <= open THEN <<>> ELSE SubSeq(text, open, close)

\* re.search(r'\[.*?\]', text, re.DOTALL): from the first "[" to the first
\* "]" after it; <<>> when there is no match.
BracketSpan(text) ==
    LET open == IndexFrom(text, "[", 1)
        close == IF open = 0 THEN 0 ELSE IndexFrom(text, "]", open + 1)
    IN  IF close = 0 THEN <<>> ELSE SubSeq(text, open, close)

JsonLiterals == {"true", "false", "null", "0", "1", "2"}

\* str(t) of a parsed JSON scalar
LiteralStr(tok) ==
    CASE tok = "true" -> "True"
      [] tok = "false" -> "False"
      [] tok = "null" -> "None"
      [] OTHER -> tok

\* One JSON value at the head of s (after whitespace): a string literal
\* "..." or a scalar literal.  Gives its str() and the rest of s.  A raw
\* newline inside a string literal is a JSONDecodeError.
JsonValue(s0) ==
    LET s == LStrip(s0)
        close == IndexFrom(s, "\"", 2)
    IN  IF s = <<>> THEN [ok |-> FALSE]
        ELSE IF s[1] = "\""
        THEN IF close = 0 \/ IndexFrom(SubSeq(s, 2, close - 1), "\n", 1) # 0
             THEN [ok |-> FALSE]
             ELSE [ok |-> TRUE, val |-> SubSeq(s, 2, close - 1),
                   rest |-> SubSeq(s, close + 1, Len(s))]
        ELSE IF s[1] \in JsonLiterals
        THEN [ok |-> TRUE, val |-> <<LiteralStr(s[1])>>, rest |-> Tail(s)]
        ELSE [ok |-> FALSE]

\* The elements of a JSON array body: value ("," value)*
RECURSIVE JsonElements(_)
JsonElements(s) ==
    LET v == JsonValue(s)
        rest == LStrip(v.rest)
        more == JsonElements(Tail(rest))
    IN  IF ~v.ok THEN [ok |-> FALSE]
        ELSE IF rest = <<>> THEN [ok |-> TRUE, items |-> <<v.val>>]
        ELSE IF rest[1] # "," THEN [ok |-> FALSE]
        ELSE IF ~more.ok THEN [ok |-> FALSE]
        ELSE [ok |-> TRUE, items |-> <<v.val>> \o more.items]

\* json.loads of a span "[" ... "]"
JsonLoadsArray(span) ==
    LET body == SubSeq(span, 2, Len(span) - 1)
    IN  IF LStrip(body) = <<>> THEN [ok |-> TRUE, items |-> <<>>]
        ELSE JsonElements(body)

\* s.split(sep)
RECURSIVE Split(_, _)
Split(s, sep) ==
    LET i == IndexFrom(s, sep, 1)
    IN  IF i = 0 THEN <<s>>
        ELSE <<SubSeq(s, 1, i - 1)>> \o Split(SubSeq(s, i + 1, Len(s)), sep)

\* s.strip(chars)
RECURSIVE StripChars(_, _)
StripChars(s, chars) ==
    IF s # <<>> /\ s[1] \in chars THEN StripChars(Tail(s), chars)
    ELSE IF s # <<>> /\ s[Len(s)] \in chars
    THEN StripChars(SubSeq(s, 1, Len(s) - 1), chars)
    ELSE s

\* text.replace('\n', ',')
ReplaceNewlines(s) == [i \in 1..Len(s) |-> IF s[i] = "\n" THEN "," ELSE s[i]]

NonEmpty(items) == SelectSeq(items, LAMBDA t : t # <<>>)

\* The fallback of _parse_tags: strip brackets, split by commas.
ParseTagsFallback(text) ==
    LET inner == StripChars(text, {"[", "]"})
        pieces == Split(ReplaceNewlines(inner), ",")
        tags == [i \in 1..Len(pieces) |->
                    StripChars(Strip(pieces[i]), {"\"", "'"})]
    IN  NonEmpty(tags)

\* MLXServer._parse_tags(response): a list of tags, each a token sequence.
_parse_tags(response) ==
    LET text == Strip(response)
        span == BracketSpan(text)
        arr == JsonLoadsArray(span)
    IN  IF span # <<>> /\ arr.ok
        THEN NonEmpty([i \in 1..Len(arr.items) |-> Strip(arr.items[i])])
        ELSE ParseTagsFallback(text)

\* ----------------------------------------------------------- text handlers
\* content[:2000]
ContentLimit == 2000
\* Mutant of Truncate: the slice keeps everything.
Truncate_Unbounded(s, n) == s

Truncate(s, n) == SubSeq(s, 1, IF Len(s) < n THEN Len(s) ELSE n)

\* tags[:5]
MaxTags == 5

\* Outcomes of the calls a text handler makes: stage names the first call
\* that raises ("done" when none does), text is the generated text.
TextEnv(stage, text) == [stage |-> stage, text |-> text]

\* MLXServer.check_availability(): env.stage = "mx_raises" when the probe
\* mx.array([1, 2, 3]) raises.
check_availability(env) ==
    IF env.stage = "mx_raises"
    THEN Result([type |-> "response", command |-> "check-availability",
                 available |-> FALSE, error |-> <<"mx error">>],
                Session, queue, <<>>)
    ELSE Result([type |-> "response", command |-> "check-availability",
                 available |-> TRUE],
                Session, queue, <<>>)

\* MLXServer.generate_tags(content)
generate_tags(content, env) ==
    LET cmd == "generate-tags"
        prompt == <<"Generate 3-5 relevant tags for this content.", "Content: ">>
                  \o Truncate(content.v, ContentLimit) \o <<"Tags:">>
        gcall == <<[fn |-> "generate", lib |-> "mlx_lm", prompt |-> prompt]>>
        tags == _parse_tags(env.text)
    IN  IF model = None
        THEN Result(ErrorResponse(cmd, <<"No model loaded">>), Session, queue, <<>>)
        ELSE IF content.t # "str"
        THEN Result(ErrorResponse(cmd, <<"not subscriptable">>), Session, queue, <<>>)
        ELSE IF env.stage = "generate_raises"
        THEN Result(ErrorResponse(cmd, <<"backend error">>), Session, queue, gcall)
        ELSE Result([type |-> "response", command |-> cmd,
                     tags |-> Truncate(tags, MaxTags)],
                    Session, queue, gcall)

\* Mutant of summarize: the resident-model check is missing.
summarize_Ungated(content, env) ==
    LET prompt == <<"Summarize this content in 2-3 sentences.", "Content: ">>
                  \o Truncate(content.v, ContentLimit) \o <<"Summary:">>
        gcall == <<[fn |-> "generate", lib |-> "mlx_lm", prompt |-> prompt]>>
    IN  IF env.stage = "generate_raises"
        THEN Result(ErrorResponse("summarize", <<"backend error">>),
                    Session, queue, gcall)
        ELSE Result([type |-> "response", command |-> "summarize",
                     summary |-> Str(Strip(env.text))],
                    Session, queue, gcall)

\* MLXServer.summarize(content)
summarize(content, env) ==
    LET cmd == "summarize"
        prompt == <<"Summarize this content in 2-3 sentences.", "Content: ">>
                  \o Truncate(content.v, ContentLimit) \o <<"Summary:">>
        gcall == <<[fn |-> "generate", lib |-> "mlx_lm", prompt |-> prompt]>>
    IN  IF model = None
        THEN Result(ErrorResponse(cmd, <<"No model loaded">>), Session, queue, <<>>)
        ELSE IF content.t # "str"
        THEN Result(ErrorResponse(cmd, <<"not subscriptable">>), Session, queue, <<>>)
        ELSE IF env.stage = "generate_raises"
        THEN Result(ErrorResponse(cmd, <<"backend error">>), Session, queue, gcall)
        ELSE Result([type |-> "response", command |-> cmd,
                     summary |-> Str(Strip(env.text))],
                    Session, queue, gcall)

\* Whether every message carries "role" and "content" (m["role"], m["content"]).
WellFormedMessages(messages) ==
    \A i \in 1..Len(messages) :
        "role" \in DOMAIN messages[i] /\ "content" \in DOMAIN messages[i]

\* MLXServer.chat(messages)
chat(messages, env) ==
    LET cmd == "chat"
        tcall == [fn |-> "apply_chat_template", conversation |-> messages.v]
        gcall == [fn |-> "generate", lib |-> "mlx_lm"]
    IN  IF model = None
        THEN Result(ErrorResponse(cmd, <<"No model loaded">>), Session, queue, <<>>)
        ELSE IF ~Truthy(messages)
        THEN Result(ErrorResponse(cmd, <<"No messages provided">>), Session, queue, <<>>)
        ELSE IF ~WellFormedMessages(messages.v)
        THEN Result(ErrorResponse(cmd, <<"KeyError">>), Session, queue, <<>>)
        ELSE IF env.stage = "template_raises"
        THEN Result(ErrorResponse(cmd, <<"backend error">>), Session, queue, <<tcall>>)
        ELSE IF env.stage = "generate_raises"
        THEN Result(ErrorResponse(cmd, <<"backend error">>), Session, queue,
                    <<tcall, gcall>>)
        ELSE Result([type |-> "response", command |-> cmd,
                     response |-> Str(Strip(env.text))],
                    Session, queue, <<tcall, gcall>>)

\* MLXServer.model_info(): env.stage = "parameters_raises" when summing the
\* parameter sizes raises.
model_info(env) ==
    LET cmd == "model-info"
    IN  IF model = None
        THEN Result(ErrorResponse(cmd, <<"No model loaded">>), Session, queue, <<>>)
        ELSE IF env.stage = "parameters_raises"
        THEN Result(ErrorResponse(cmd, <<"parameters error">>), Session, queue, <<>>)
        ELSE Result([type |-> "response", command |-> cmd,
                     model_name |-> model_name, param_count |-> Num(model.id)],
                    Session, queue, <<>>)

\* Mutant of download_model: the terminal line is also returned to run().
download_model_AlsoReturns(repo_id, destination, env) ==
    LET terminal ==
            IF env.stage = "download_raises"
            THEN ErrorResponse("download-model", <<"download error">>)
            ELSE [type |-> "response", command |-> "download-model",
                  success |-> TRUE, destination |-> destination]
    IN  [resp |-> terminal, S |-> Session, q |-> queue,
         calls |-> <<[fn |-> "snapshot_download", repo_id |-> repo_id,
                      local_dir |-> destination]>>,
         printed |-> <<terminal>>]

\* MLXServer.download_model(repo_id, destination): prints its own terminal
\* line and returns None; progress_callback is never handed to
\* snapshot_download, so no progress line is printed.
download_model(repo_id, destination, env) ==
    LET call == <<[fn |-> "snapshot_download", repo_id |-> repo_id,
                   local_dir |-> destination]>>
        terminal ==
            IF env.stage = "download_raises"
            THEN ErrorResponse("download-model", <<"download error">>)
            ELSE [type |-> "response", command |-> "download-model",
                  success |-> TRUE, destination |-> destination]
    IN  [resp |-> None, S |-> Session, q |-> queue, calls |-> call,
         printed |-> <<terminal>>]

\* ------------------------------------------------------------ handle_command
CommandName(name) == Str(<<name>>)

CommandNames ==
    {"check-availability", "load-model", "generate-tags", "summarize", "chat",
     "generate-transcript", "copilot-analyze", "download-model", "model-info",
     "shutdown"}

\* The if/elif chain of handle_command: the branch taken for command_data,
\* named by the command it compares against ("unknown" for the else branch).
Route(command_data) ==
    LET command == Get(command_data, "command", None)
    IN  IF \E name \in CommandNames : command = CommandName(name)
        THEN CHOOSE name \in CommandNames : command = CommandName(name)
        ELSE "unknown"

MissingField(command, what) ==
    Result([type |-> "error", command |-> command, error |-> <<"Missing ">> \o what],
           Session, queue, <<>>)

\* The branches of handle_command.  env holds the outcomes of the external
\* calls the handler makes, hid the identity of the objects a loader returns.
HandleLoadModel(command_data, env, hid) ==
    LET model_path == Get(command_data, "model_path", None)
        caps == Get(command_data, "capabilities", None)
    IN  IF ~Truthy(model_path)
        THEN MissingField("load-model", <<"model_path">>)
        ELSE load_model(model_path, caps, env.stage, env.struct, hid)

HandleGenerateTags(command_data, env) ==
    LET content == Get(command_data, "content", None)
    IN  IF ~Truthy(content)
        THEN MissingField("generate-tags", <<"content">>)
        ELSE generate_tags(content, env)

HandleSummarize(command_data, env) ==
    LET content == Get(command_data, "content", None)
    IN  IF ~Truthy(content)
        THEN MissingField("summarize", <<"content">>)
        ELSE summarize(content, env)

HandleChat(command_data, env) ==
    LET messages == Get(command_data, "messages", None)
    IN  IF ~Truthy(messages)
        THEN MissingField("chat", <<"messages">>)
        ELSE chat(messages, env)

HandleGenerateTranscript(command_data, env) ==
    LET audio_path == Get(command_data, "audio_path", None)
    IN  IF ~Truthy(audio_path)
        THEN MissingField("generate-transcript", <<"audio_path">>)
        ELSE generate_transcript(audio_path, env)

HandleCopilotAnalyze(command_data, env) ==
    LET audio_path == Get(command_data, "audio_path", None)
        context == Get(command_data, "context", EmptyStr)
    IN  IF ~Truthy(audio_path)
        THEN MissingField("copilot-analyze", <<"audio_path">>)
        ELSE copilot_analyze(audio_path, context, env)

\* Mutant of HandleDownloadModel: only repo_id is required.
HandleDownloadModel_RepoOnly(command_data, env) ==
    LET repo_id == Get(command_data, "repo_id", None)
        destination == Get(command_data, "destination", None)
    IN  IF ~Truthy(repo_id)
        THEN MissingField("download-model", <<"repo_id", " or ", "destination">>)
        ELSE download_model(repo_id, destination, env)

HandleDownloadModel(command_data, env) ==
    LET repo_id == Get(command_data, "repo_id", None)
        destination == Get(command_data, "destination", None)
    IN  IF ~Truthy(repo_id) \/ ~Truthy(destination)
        THEN MissingField("download-model", <<"repo_id", " or ", "destination">>)
        ELSE download_model(repo_id, destination, env)

HandleShutdown ==
    Result([type |-> "response", command |-> "shutdown", success |-> TRUE],
           Session, queue, <<>>)

\* Mutant of HandleUnknown: the message does not carry the command.
HandleUnknown_Anonymous(command_data) ==
    Result([type |-> "error", error |-> <<"Unknown command">>],
           Session, queue, <<>>)

HandleUnknown(command_data) ==
    Result([type |-> "error",
            error |-> <<"Unknown command: ">>
                      \o PyStr(Get(command_data, "command", None))],
           Session, queue, <<>>)

\* ------------------------------------------------------------------------ run
\* A stdin line: blank after strip(), text json.loads rejects, or text
\* json.loads parses to value.
BlankInput == [syntax |-> "blank"]
MalformedInput(src) == [syntax |-> "malformed", src |-> src]
JsonInput(value) == [syntax |-> "json", value |-> value]

\* json.loads(line)
JsonLoads(l) ==
    IF l.syntax = "json" THEN [ok |-> TRUE, value |-> l.value] ELSE [ok |-> FALSE]

\* What one iteration leaves behind: the lines written to stdout, the
\* Session, the embedding queue, the external calls made, and whether the
\* loop breaks.
Outcome(lines, S, q, c, break) ==
    [out |-> lines, S |-> S, q |-> q, calls |-> c, break |-> break]

\* Mutant of InvalidJsonClause: the loop ends on a line that does not parse.
InvalidJsonClause_Breaks(l) ==
    [out |-> <<[type |-> "error", error |-> <<"Invalid JSON: ", l.src>>]>>,
     S |-> Session, q |-> queue, calls |-> <<>>, break |-> TRUE]

\* except json.JSONDecodeError
InvalidJsonClause(l) ==
    Outcome(<<[type |-> "error", error |-> <<"Invalid JSON: ", l.src>>]>>,
            Session, queue, <<>>, FALSE)

\* Mutant of UnexpectedErrorClause: the fault ends the loop.
UnexpectedErrorClause_Breaks(msg) ==
    [out |-> <<[type |-> "error", error |-> <<"Unexpected error: ", msg>>,
                traceback |-> <<"Traceback">>]>>,
     S |-> Session, q |-> queue, calls |-> <<>>, break |-> TRUE]

\* except Exception
UnexpectedErrorClause(msg) ==
    Outcome(<<[type |-> "error", error |-> <<"Unexpected error: ", msg>>,
               traceback |-> <<"Traceback">>]>>,
            Session, queue, <<>>, FALSE)

\* Mutant of BreakOnShutdown: the loop goes on after shutdown.
BreakOnShutdown_Never(command_data) == FALSE

\* if command_data.get("command") == "shutdown": break
BreakOnShutdown(command_data) ==
    Get(command_data, "command", None) = CommandName("shutdown")

\* Mutant of Printed: the handler's response is not written.
Printed_Silent(r) == r.printed

\* if response: print(json.dumps(response)), after what the handler printed
Printed(r) == r.printed \o (IF r.resp # None THEN <<r.resp>> ELSE <<>>)

\* The body of the try block of run() for a non-blank line, with the two
\* except clauses.  r is what handle_command does for the line.
ProcessLine(l, r) ==
    LET parsed == JsonLoads(l)
        command_data == parsed.value
    IN  IF ~parsed.ok THEN InvalidJsonClause(l)
        ELSE IF command_data.t # "object"
        THEN UnexpectedErrorClause("no attribute get")
        ELSE Outcome(Printed(r), r.S, r.q, r.calls, BreakOnShutdown(command_data.v))

\* The capabilities declared with the resident model: recorded when an
\* iteration leaves a model object other than the one it found.
LoadedWith(l, S) ==
    IF S.model # model
    THEN DeclaredCapabilities(Get(l.value.v, "capabilities", None))
    ELSE loaded_with

\* The running context the caller keeps: updated_summary of a successful
\* copilot-analyze response.
CallerSummary(lines) ==
    IF /\ lines # <<>>
       /\ lines[1].type = "response"
       /\ lines[1].command = "copilot-analyze"
    THEN lines[1].updated_summary
    ELSE summary

\* Mutant of Iteration: the line is not consumed, the next iteration may
\* read it again.
Iteration_Rereads(l, r) ==
    /\ pc = "reading"
    /\ nread < MaxLines
    /\ nread' = nread
    /\ line' = l
    /\ UNCHANGED <<OMNI_AVAILABLE, host>>
    /\ IF l.syntax = "blank"
       THEN /\ out' = <<>>
            /\ calls' = <<>>
            /\ UNCHANGED <<model, tokenizer, model_name, capabilities, queue, pc,
                           loaded_with, summary, exit_status>>
       ELSE LET p == ProcessLine(l, r)
            IN  /\ out' = p.out
                /\ calls' = p.calls
                /\ model' = p.S.model
                /\ tokenizer' = p.S.tokenizer
                /\ model_name' = p.S.model_name
                /\ capabilities' = p.S.capabilities
                /\ queue' = p.q
                /\ pc' = IF p.break THEN "shutdown" ELSE "reading"
                \* run() returns after the break and the script ends
                /\ exit_status' = IF p.break THEN Num(0) ELSE exit_status
                /\ loaded_with' = LoadedWith(l, p.S)
                /\ summary' = CallerSummary(p.out)

\* One iteration of `for line in sys.stdin` for the line l.
Iteration(l, r) ==
    /\ pc = "reading"
    /\ nread < MaxLines
    /\ nread' = nread + 1
    /\ line' = l
    /\ UNCHANGED <<OMNI_AVAILABLE, host>>
    /\ IF l.syntax = "blank"
       THEN /\ out' = <<>>
            /\ calls' = <<>>
            /\ UNCHANGED <<model, tokenizer, model_name, capabilities, queue, pc,
                           loaded_with, summary, exit_status>>
       ELSE LET p == ProcessLine(l, r)
            IN  /\ out' = p.out
                /\ calls' = p.calls
                /\ model' = p.S.model
                /\ tokenizer' = p.S.tokenizer
                /\ model_name' = p.S.model_name
                /\ capabilities' = p.S.capabilities
                /\ queue' = p.q
                /\ pc' = IF p.break THEN "shutdown" ELSE "reading"
                \* run() returns after the break and the script ends
                /\ exit_status' = IF p.break THEN Num(0) ELSE exit_status
                /\ loaded_with' = LoadedWith(l, p.S)
                /\ summary' = CallerSummary(p.out)

\* Iteration for a line holding the JSON object command_data, which
\* handle_command routes to the branch named route.
Dispatch(command_data, route, r) ==
    /\ Route(command_data) = route
    /\ Iteration(JsonInput(Object(command_data)), r)

\* -------------------------------------------------------------------- inputs
\* A JSON object with the given command name and fields.
Command(name, fields) ==
    [k \in {"command"} \cup DOMAIN fields |->
        IF k = "command" THEN CommandName(name) ELSE fields[k]]

NoFields == [k \in {} |-> None]

\* Every way of giving or leaving out the fields of f: one object per
\* subset of the field names.
Optional(f) == {[k \in D |-> f[k]] : D \in SUBSET DOMAIN f}

ModelPaths == {Str(<<"qwen">>), Str(<<"models", "/", "omni">>), Str(<<>>), Num(7)}
CapabilityLists == {List(<<"text">>), List(<<"audio", "text">>), List(<<>>)}

LoadCommands ==
    {Command("load-model", f) :
        f \in UNION {Optional([model_path |-> p, capabilities |-> c]) :
                        p \in ModelPaths, c \in CapabilityLists}}
LoadEnvs ==
    {[stage |-> "raises", struct |-> "plain"]}
    \cup {[stage |-> "returns", struct |-> st] : st \in OmniStructs \cup {"plain"}}

Contents == {Str(<<"note">>), Str(<<>>)}
ContentFields == UNION {Optional([content |-> c]) : c \in Contents}

\* Texts the model may generate for the tag prompt.
TagTexts ==
    { <<"Sure!", " ", "[", "\"", "a", "\"", ",", " ", "\"", "b", "\"", "]">>,
      <<"a", ",", " ", "b", "\n", "c">>,
      <<",", "t1", ",", "t2", ",", "t3", ",", "t4", ",", "t5", ",", "t6">>,
      <<"[", "]">> }
TagEnvs == {TextEnv("generate_raises", <<>>)} \cup {TextEnv("done", t) : t \in TagTexts}

PlainTexts == {<<" ", "A", " ", "summary.", "\n">>}
PlainEnvs ==
    {TextEnv("generate_raises", <<>>)} \cup {TextEnv("done", t) : t \in PlainTexts}
ChatEnvs == PlainEnvs \cup {TextEnv("template_raises", <<>>)}

MessageLists ==
    {List(<<>>),
     List(<<[role |-> Str(<<"user">>), content |-> Str(<<"hi">>)]>>),
     List(<<[role |-> Str(<<"user">>)]>>)}
ChatCommands ==
    {Command("chat", f) : f \in UNION {Optional([messages |-> m]) : m \in MessageLists}}

AudioPaths == {Str(<<"seg", ".wav">>), Str(<<"seg", ".pcm">>), Str(<<"seg", ".mp3">>)}
\* Decoded sample sequences: no samples, or one of two different recordings.
Recordings == {<<1>>, <<2>>}
Contexts == {Str(<<>>), Str(<<"X">>)}

\* Texts the model may generate for the transcript prompt.
TranscriptObject == Object([language |-> Str(<<"en">>), transcript |-> Str(<<"hi">>)])
TranscriptTexts ==
    { <<TextLine("{language,transcript}", TranscriptObject)>>,
      <<FenceLine("<fence>json"), TextLine("{language,transcript}", TranscriptObject),
        FenceLine("<fence>")>>,
      <<TextLine("not json at all", Invalid)>>,
      <<FenceLine("<fence>"), TextLine("plain words", Invalid), FenceLine("<fence>")>>,
      <<TextLine("{language}", Object([language |-> Str(<<"en">>)]))>>,
      <<TextLine("{transcript:null}", Object([transcript |-> None]))>>,
      <<TextLine("[1]", List(<<Num(1)>>))>> }

\* Texts the model may generate for the copilot prompt.
CopilotObject ==
    Object([new_content |-> Str(<<"N1">>), updated_summary |-> Str(<<"S1">>),
            key_points |-> List(<<Str(<<"k">>)>>), decisions |-> EmptyList,
            action_items |-> EmptyList, open_questions |-> EmptyList,
            suggested_questions |-> EmptyList, key_concepts |-> EmptyList])
CopilotTexts ==
    { <<TextLine("{all fields}", CopilotObject)>>,
      <<FenceLine("<fence>json"),
        TextLine("{new_content}", Object([new_content |-> Str(<<"N2">>)])),
        FenceLine("<fence>")>>,
      <<TextLine("X", Invalid)>>,
      <<TextLine("[1]", List(<<Num(1)>>))>> }

\* The outcomes of the external calls of an audio handler.
AudioEnvs(texts) ==
    {AudioEnv(st, <<>>, <<>>) : st \in {"import_error", "not_found", "decode_raises"}}
    \cup {AudioEnv("done", <<>>, <<>>)}
    \cup {AudioEnv(st, a, <<>>) :
            st \in {"template_raises", "generate_raises"}, a \in Recordings}
    \cup {AudioEnv("done", a, t) : a \in Recordings, t \in texts}

\* An audio handler reaches its external calls only with a resident model,
\* "audio" among the capabilities and mlx_lm_omni imported; short of that no
\* outcome is drawn.
AudioEnvsFor(texts) ==
    IF model # None /\ Contains(capabilities, "audio") /\ OMNI_AVAILABLE
    THEN AudioEnvs(texts)
    ELSE {AudioEnv("done", <<>>, <<>>)}

TranscriptCommands ==
    {Command("generate-transcript", f) :
        f \in UNION {Optional([audio_path |-> p]) : p \in AudioPaths \cup {Str(<<>>)}}}
\* The caller sends no context, an empty one, one of Contexts, or the
\* running context it keeps.
CopilotCommands ==
    {Command("copilot-analyze", f) :
        f \in UNION {Optional([audio_path |-> p, context |-> c]) :
                        p \in {Str(<<"seg", ".wav">>), Str(<<>>)},
                        c \in Contexts \cup {summary}}}

DownloadCommands ==
    {Command("download-model", f) :
        f \in Optional([repo_id |-> Str(<<"org", "/", "repo">>),
                        destination |-> Str(<<"dest">>)])}

UnknownCommands ==
    {Command("frobnicate", NoFields), [model_path |-> Str(<<"qwen">>)]}

\* ------------------------------------------------------------------- actions
Init ==
    /\ model = None
    /\ tokenizer = None
    /\ model_name = None
    /\ capabilities = <<>>
    /\ OMNI_AVAILABLE \in BOOLEAN
    /\ queue = <<>>
    /\ pc = "startup"
    /\ nread = 0
    /\ line = BlankInput
    /\ out = <<>>
    /\ calls = <<>>
    /\ loaded_with = <<>>
    /\ summary = EmptyStr
    /\ host \in [machine : {"arm64", "x86_64"}, mlx_imports : BOOLEAN]
    /\ exit_status = None

\* The module-level checks, then main: the server object is constructed and
\* run() is entered, unless a check has ended the process.
Startup ==
    /\ pc = "startup"
    /\ LET s == ModuleStartup(host)
       IN  /\ out' = s.out
           /\ exit_status' = s.exit
           /\ pc' = IF s.exit = None THEN "reading" ELSE "exited"
    /\ UNCHANGED <<model, tokenizer, model_name, capabilities, OMNI_AVAILABLE,
                   queue, nread, line, calls, loaded_with, summary, host>>

NoResult == Result(None, Session, queue, <<>>)

BlankLine == Iteration(BlankInput, NoResult)

InvalidJson ==
    \E src \in {"{", "load-model"} : Iteration(MalformedInput(src), NoResult)

\* A line that parses to something other than a JSON object.
NonObjectJson ==
    \E v \in {List(<<>>), Num(7), None} : Iteration(JsonInput(v), NoResult)

CheckAvailability ==
    \E env \in {[stage |-> "done"], [stage |-> "mx_raises"]} :
        Dispatch(Command("check-availability", NoFields), "check-availability",
                 check_availability(env))

LoadModel ==
    \E c \in LoadCommands, env \in LoadEnvs :
        /\ env.stage \in LoaderOutcomes(Get(c, "model_path", None))
        /\ env.stage = "returns" =>
                env.struct \in LoaderStructs(Get(c, "capabilities", None))
        /\ Dispatch(c, "load-model", HandleLoadModel(c, env, nread + 1))

GenerateTags ==
    \E f \in ContentFields, env \in TagEnvs :
        LET c == Command("generate-tags", f)
        IN  Dispatch(c, "generate-tags", HandleGenerateTags(c, env))

Summarize ==
    \E f \in ContentFields, env \in PlainEnvs :
        LET c == Command("summarize", f)
        IN  Dispatch(c, "summarize", HandleSummarize(c, env))

Chat ==
    \E c \in ChatCommands, env \in ChatEnvs :
        Dispatch(c, "chat", HandleChat(c, env))

GenerateTranscript ==
    \E c \in TranscriptCommands, env \in AudioEnvsFor(TranscriptTexts) :
        Dispatch(c, "generate-transcript", HandleGenerateTranscript(c, env))

CopilotAnalyze ==
    \E c \in CopilotCommands, env \in AudioEnvsFor(CopilotTexts) :
        Dispatch(c, "copilot-analyze", HandleCopilotAnalyze(c, env))

DownloadModel ==
    \E c \in DownloadCommands, env \in {[stage |-> "done"], [stage |-> "download_raises"]} :
        Dispatch(c, "download-model", HandleDownloadModel(c, env))

ModelInfo ==
    \E env \in {[stage |-> "done"], [stage |-> "parameters_raises"]} :
        Dispatch(Command("model-info", NoFields), "model-info", model_info(env))

Shutdown == Dispatch(Command("shutdown", NoFields), "shutdown", HandleShutdown)

UnknownCommand ==
    \E c \in UnknownCommands : Dispatch(c, "unknown", HandleUnknown(c))

\* stdin is exhausted: the for loop ends.
EndOfInput ==
    /\ pc = "reading"
    /\ pc' = "eof"
    /\ exit_status' = Num(0)
    /\ UNCHANGED <<model, tokenizer, model_name, capabilities, OMNI_AVAILABLE,
                   queue, nread, line, out, calls, loaded_with, summary, host>>

Next ==
    \/ Startup
    \/ BlankLine
    \/ InvalidJson
    \/ NonObjectJson
    \/ CheckAvailability
    \/ LoadModel
    \/ GenerateTags
    \/ Summarize
    \/ Chat
    \/ GenerateTranscript
    \/ CopilotAnalyze
    \/ DownloadModel
    \/ ModelInfo
    \/ Shutdown
    \/ UnknownCommand
    \/ EndOfInput

Spec == Init /\ [][Next]_vars

\* The process keeps running: while run() can take a step (read the next
\* line of the finite stream, or see its end) it takes one; every external
\* call returns or raises, so every iteration completes.
FairSpec == Init /\ [][Next]_vars /\ WF_vars(Next)

\* ------------------------------------------------- _parse_tags on its own
\* _parse_tags is a pure function of the generated text.  Here it is applied
\* to every text of a bounded family: all short token sequences, and texts
\* that hold a JSON array between a prefix and a suffix.

MaxTextLen == 3
MaxElements == 3

TagAlphabet == {"[", "]", ",", "\"", "'", " ", "\n", "a", "1"}
TagWords == {"a", "1"}

\* A word is one token, so two words are never adjacent.
ShortTexts ==
    {t \in UNION {[1..n -> TagAlphabet] : n \in 0..MaxTextLen} :
        \A i \in 1..(Len(t) - 1) : ~(t[i] \in TagWords /\ t[i + 1] \in TagWords)}

\* An element of a JSON array: how it is written and what str() gives for
\* the value json.loads makes of it.
Quoted(v) == [json |-> <<"\"">> \o v \o <<"\"">>, str |-> v]
Literal(tok, pystr) == [json |-> <<tok>>, str |-> <<pystr>>]
ArrayElements ==
    { Quoted(<<"a">>), Quoted(<<"b">>), Quoted(<<"c">>),
      Quoted(<<" ", "a", " ">>), Quoted(<<>>), Quoted(<<"a", ",", "b">>),
      Quoted(<<"[", "a">>), Literal("null", "None") }
ElementLists == UNION {[1..n -> ArrayElements] : n \in 0..MaxElements}
Separators == {<<",">>, <<",", " ">>}
ArrayPrefixes == {<<>>, <<"Sure!", " ">>}
ArraySuffixes == {<<>>, <<" ", "]">>, <<"\n", "[", "x", "]">>}

RECURSIVE WriteElements(_, _)
WriteElements(es, sep) ==
    IF es = <<>> THEN <<>>
    ELSE IF Len(es) = 1 THEN es[1].json
    ELSE es[1].json \o sep \o WriteElements(Tail(es), sep)

\* A text with a JSON array in it.
ArrayText(prefix, es, sep, suffix) ==
    prefix \o <<"[">> \o WriteElements(es, sep) \o <<"]">> \o suffix

\* Lists written without JSON: separated by commas and newlines, quoted or
\* not, with brackets that do not enclose an array.
ListTexts ==
    { <<"a", ",", " ", "b", ",", " ", "c">>,
      <<"a", "\n", "b", "\n", "c", "\n">>,
      <<"\"", "a", "\"", ",", " ", "'", "b", "'", ",", ",", " ">>,
      <<"[", "a", ",", " ", "b", "]">>,
      <<"[", "[", "a", ",", " ", "b", "]", "]">>,
      <<"[", "\"", "a", "\"", ",", " ", "\"", "b", "\"">> }

\* A generated text, and the array it was written from if any.
TagResponses ==
    {[response |-> t, written |-> FALSE, elements |-> <<>>] :
        t \in ShortTexts \cup ListTexts}
    \cup {[response |-> ArrayText(p, es, sep, s), written |-> TRUE, elements |-> es] :
            p \in ArrayPrefixes, es \in ElementLists, sep \in Separators,
            s \in ArraySuffixes}

\* A server without a model, holding a generated text in `line`.
ParseInit ==
    /\ model = None
    /\ tokenizer = None
    /\ model_name = None
    /\ capabilities = <<>>
    /\ OMNI_AVAILABLE = FALSE
    /\ queue = <<>>
    /\ pc = "parse_tags"
    /\ nread = 0
    /\ line \in TagResponses
    /\ out = <<>>
    /\ calls = <<>>
    /\ loaded_with = <<>>
    /\ summary = EmptyStr
    /\ host = [machine |-> "arm64", mlx_imports |-> TRUE]
    /\ exit_status = None

\* tags = self._parse_tags(response): `out` receives the returned list.
ParseTags ==
    /\ pc = "parse_tags"
    /\ out' = <<_parse_tags(line.response)>>
    /\ pc' = "parsed"
    /\ UNCHANGED <<model, tokenizer, model_name, capabilities, OMNI_AVAILABLE,
                   queue, nread, line, calls, loaded_with, summary, host,
                   exit_status>>

ParseNext == ParseTags

ParseSpec == ParseInit /\ [][ParseNext]_vars

\* ---------------------------------------------------------------- properties
\* The latest iteration consumed a JSON object that handle_command routes
\* to the branch `name`.
IsCommand(l, name) ==
    /\ l.syntax = "json"
    /\ l.value.t = "object"
    /\ Route(l.value.v) = name

\* A field of the command of line l.
Field(l, k, default) == Get(l.value.v, k, default)

\* The calls of a call log c made to fn.
CallsTo(c, fns) == {i \in 1..Len(c) : c[i].fn \in fns}

StartsWith(s, prefix) ==
    /\ Len(s) >= Len(prefix)
    /\ SubSeq(s, 1, Len(prefix)) = prefix

\* C1: a non-blank line that json.loads rejects is answered by exactly one
\* type=error line, leaves the Session as it was and does not end the loop.
C1_MalformedLineAnswered ==
    [][ (nread' = nread + 1 /\ line'.syntax = "malformed")
        => /\ Len(out') = 1
           /\ out'[1].type = "error"
           /\ Session' = Session
           /\ pc' = "reading" ]_vars

C1_Witness ==
    /\ line.syntax = "malformed"
    /\ model # None
    /\ Len(out) = 1 /\ out[1].type = "error"
    /\ pc = "reading"
    /\ nread < MaxLines

\* A load-model command that fails as C2 describes: "audio" is declared and
\* mlx_lm_omni is not available, or the loader raised.
FailedLoad(l, c) ==
    /\ IsCommand(l, "load-model")
    /\ Truthy(Field(l, "model_path", None))
    /\ \/ /\ Contains(DeclaredCapabilities(Field(l, "capabilities", None)), "audio")
          /\ ~OMNI_AVAILABLE
       \/ \E i \in CallsTo(c, {"load"}) : c[i].outcome = "raises"

\* C2 (as claimed): a load-model command that fails returns type=error and
\* leaves model, tokenizer, model_name and capabilities as they were.
C2_FailedLoadLeavesSession ==
    [][ (nread' = nread + 1 /\ FailedLoad(line', calls'))
        => /\ Len(out') = 1
           /\ out'[1].type = "error"
           /\ Session' = Session ]_vars

GatedCommands ==
    {"generate-tags", "summarize", "chat", "generate-transcript",
     "copilot-analyze", "model-info"}

\* The field handle_command requires of a gated command ("" for none).
RequiredField(name) ==
    CASE name \in {"generate-tags", "summarize"} -> "content"
      [] name = "chat" -> "messages"
      [] name \in {"generate-transcript", "copilot-analyze"} -> "audio_path"
      [] OTHER -> ""

HasRequiredField(l, name) ==
    RequiredField(name) = "" \/ Truthy(Field(l, RequiredField(name), None))

\* C3 (as claimed): with no model loaded, every gated command, whatever its
\* other fields, is answered "No model loaded" without a backend call.
C3_NoModelLoaded_AnyFields ==
    \A name \in GatedCommands :
        (IsCommand(line, name) /\ model = None)
        => /\ out = <<ErrorResponse(name, <<"No model loaded">>)>>
           /\ calls = <<>>

\* C3 (amended): with no model loaded, every gated command is answered by
\* one type=error line without a backend call; the message is "No model
\* loaded" when the command carries its required field non-empty.
C3_NoModelLoaded ==
    \A name \in GatedCommands :
        (IsCommand(line, name) /\ model = None)
        => /\ Len(out) = 1
           /\ out[1].type = "error"
           /\ calls = <<>>
           /\ HasRequiredField(line, name)
                => out = <<ErrorResponse(name, <<"No model loaded">>)>>

C3_Witness ==
    /\ IsCommand(line, "summarize")
    /\ model = None
    /\ HasRequiredField(line, "summarize")
    /\ out = <<ErrorResponse("summarize", <<"No model loaded">>)>>
    /\ nread > 1

AudioCommands == {"generate-transcript", "copilot-analyze"}

AudioUnsupported(name) ==
    IF name = "generate-transcript"
    THEN <<"Loaded model does not support audio transcription">>
    ELSE <<"Model does not support audio analysis">>

\* C4 (as claimed, for commands that carry audio_path): while the resident
\* model is one loaded with capabilities ["text"], generate-transcript and
\* copilot-analyze are answered by the does-not-support-audio error and
\* neither the decoder nor the backend is called.
C4_TextModelRejectsAudio ==
    \A name \in AudioCommands :
        (/\ IsCommand(line, name)
         /\ Truthy(Field(line, "audio_path", None))
         /\ model # None
         /\ loaded_with = <<"text">>)
        => /\ out = <<ErrorResponse(name, AudioUnsupported(name))>>
           /\ calls = <<>>

\* C5: a shutdown command is answered by the one acknowledgment line and
\* ends the loop; once the loop has ended on shutdown no line is read and
\* nothing is written.
C5_ShutdownEndsLoop ==
    [][ /\ (nread' = nread + 1 /\ IsCommand(line', "shutdown"))
           => /\ out' = <<[type |-> "response", command |-> "shutdown",
                           success |-> TRUE]>>
              /\ pc' = "shutdown"
        /\ pc = "shutdown" => UNCHANGED <<nread, line, out, calls, pc>> ]_vars

C5_Witness ==
    /\ pc = "shutdown"
    /\ IsCommand(line, "shutdown")
    /\ model # None
    /\ nread < MaxLines

\* C6 (as claimed): only a successful load-model changes the Session.
C6_OnlySuccessfulLoadChangesSession ==
    [][ Session' # Session
        => /\ IsCommand(line', "load-model")
           /\ Len(out') = 1
           /\ out'[1].type = "response" ]_vars

\* The decoder returned a segment of zero samples.
ZeroSampleDecode(c) ==
    \E i \in CallsTo(c, {"decode"}) : c[i].outcome = "returns" /\ c[i].samples = <<>>

\* C7: copilot-analyze on a resident audio model whose segment decodes to
\* zero samples answers with updated_summary equal to the command's context,
\* new_content empty and the six lists empty, without chat template or
\* generation.
C7_EmptyAudioPassThrough ==
    (/\ IsCommand(line, "copilot-analyze")
     /\ model # None
     /\ Contains(loaded_with, "audio")
     /\ ZeroSampleDecode(calls))
    => /\ out = <<[type |-> "response", command |-> "copilot-analyze",
                   new_content |-> Str(<<>>),
                   updated_summary |-> Field(line, "context", Str(<<>>)),
                   key_points |-> List(<<>>), decisions |-> List(<<>>),
                   action_items |-> List(<<>>), open_questions |-> List(<<>>),
                   suggested_questions |-> List(<<>>),
                   key_concepts |-> List(<<>>)]>>
       /\ CallsTo(calls, {"apply_chat_template", "generate"}) = {}

C7_Witness ==
    /\ IsCommand(line, "copilot-analyze")
    /\ model # None
    /\ Contains(loaded_with, "audio")
    /\ ZeroSampleDecode(calls)
    /\ Field(line, "context", Str(<<>>)) = Str(<<"X">>)
    /\ out[1].updated_summary = Str(<<"X">>)

\* The prompt of a copilot-analyze command with context ctx, as C8 has it.
PromptFollows(prompt, ctx) ==
    IF Truthy(ctx)
    THEN /\ StartsWith(prompt, ContinuationHead)
         /\ Embeds(prompt, ctx.v)
         /\ prompt # InitialTemplate
    ELSE prompt = InitialTemplate

\* C8: every copilot-analyze that reaches inference builds its prompt from
\* the continuation template with the context embedded when the context is
\* non-empty and from the initial template otherwise; a cycle that passes
\* the previous cycle's updated_summary has that summary in its prompt.
C8_PromptFollowsContext ==
    [][ (nread' = nread + 1 /\ IsCommand(line', "copilot-analyze"))
        => \A i \in CallsTo(calls', {"apply_chat_template"}) :
              /\ PromptFollows(calls'[i].prompt, Field(line', "context", Str(<<>>)))
              /\ (Truthy(summary) /\ Field(line', "context", Str(<<>>)) = summary)
                    => Embeds(calls'[i].prompt, summary.v) ]_vars

C8_Witness ==
    /\ IsCommand(line, "copilot-analyze")
    /\ Field(line, "context", Str(<<>>)) = Str(<<"S1">>)
    /\ \E i \in CallsTo(calls, {"apply_chat_template"}) :
          Embeds(calls[i].prompt, <<"S1">>)

\* C9 (as claimed): what copilot-analyze hands to the backend depends on the
\* command alone: the prompt of its context, the decoded segment, and the
\* embedding queue as it is right after a load (empty), whatever audio
\* commands were processed before.
C9_BackendInputFromCommandAlone ==
    IsCommand(line, "copilot-analyze")
    => \A i \in CallsTo(calls, {"apply_chat_template"}) :
          /\ PromptFollows(calls[i].prompt, Field(line, "context", Str(<<>>)))
          /\ \E j \in CallsTo(calls, {"decode"}) : calls[j].samples = calls[i].audio
          /\ calls[i].queue = <<>>

\* name is the last "/"-separated segment of path.
IsLastSegment(name, path) ==
    /\ ~Contains(name, "/")
    /\ EndsWith(path, name)
    /\ Len(name) = Len(path) \/ path[Len(path) - Len(name)] = "/"

\* C10: after a successful load-model the Session holds the handles the
\* loader returned for this command, the last path segment as model_name and
\* the declared capabilities (["text"] when none are declared); the response
\* carries that name and list; the handles differ from those held before.
C10_SuccessfulLoadReplacesSession ==
    [][ (/\ nread' = nread + 1
         /\ IsCommand(line', "load-model")
         /\ Len(out') = 1
         /\ out'[1].type = "response")
        => LET declared ==
                   IF "capabilities" \in DOMAIN line'.value.v
                   THEN line'.value.v.capabilities.v ELSE <<"text">>
               path == line'.value.v.model_path
           IN  /\ Len(calls') = 1
               /\ calls'[1].fn = "load" /\ calls'[1].outcome = "returns"
               /\ model'.t = "model" /\ model'.id = calls'[1].hid
               /\ tokenizer'.t = "tokenizer" /\ tokenizer'.id = calls'[1].hid
               /\ model' # model /\ tokenizer' # tokenizer
               /\ model_name'.t = "str"
               /\ IsLastSegment(model_name'.v, path.v)
               /\ capabilities' = declared
               /\ out'[1].model_name = model_name'
               /\ out'[1].capabilities = declared ]_vars

C10_Witness ==
    /\ IsCommand(line, "load-model")
    /\ out[1].type = "response"
    /\ Field(line, "model_path", None) = Str(<<"models", "/", "omni">>)
    /\ model_name = Str(<<"omni">>)
    /\ model.id = 3
    /\ capabilities = <<"audio", "text">>

\* The latest iteration consumed a JSON object.
IsObjectLine(l) == l.syntax = "json" /\ l.value.t = "object"

\* C11: output is written only by the step that reads a line (or by the
\* startup checks), so the lines of the k-th input line precede the reading
\* of the (k+1)-th; a line that echoes a command echoes the command of the
\* line just read; and every JSON object that handle_command answers itself
\* (every route but download-model) gets exactly one output line.
C11_HalfDuplexOneLinePerCommand ==
    [][ /\ out' # out => (nread' = nread + 1 \/ pc = "startup")
        /\ (nread' = nread + 1 /\ IsObjectLine(line'))
           => /\ \A i \in 1..Len(out') :
                    "command" \in DOMAIN out'[i]
                    => out'[i].command = Route(line'.value.v)
              /\ Route(line'.value.v) # "download-model" => Len(out') = 1 ]_vars

C11_Witness ==
    /\ nread = 3
    /\ IsCommand(line, "model-info")
    /\ model # None
    /\ Len(out) = 1
    /\ out[1].type = "response"
    /\ out[1].command = "model-info"

\* C12: a download-model command that carries repo_id and destination is
\* answered, whether or not a model is resident, by zero or more
\* type=progress lines followed by exactly one terminal line, which is the
\* success response with the destination or a type=error; every line is a
\* download-model line and the download client was called once.
C12_DownloadProgressThenTerminal ==
    (/\ IsCommand(line, "download-model")
     /\ Truthy(Field(line, "repo_id", None))
     /\ Truthy(Field(line, "destination", None)))
    => /\ Len(out) >= 1
       /\ \A i \in 1..Len(out) : out[i].command = "download-model"
       /\ \A i \in 1..(Len(out) - 1) : out[i].type = "progress"
       /\ \/ out[Len(out)] = [type |-> "response", command |-> "download-model",
                              success |-> TRUE,
                              destination |-> Field(line, "destination", None)]
          \/ out[Len(out)].type = "error"
       /\ Cardinality(CallsTo(calls, {"snapshot_download"})) = 1

C12_Witness ==
    /\ IsCommand(line, "download-model")
    /\ model = None
    /\ Len(out) = 1
    /\ out[1].type = "response"
    /\ out[1].destination = Str(<<"dest">>)
    /\ nread > 1

\* C13: a JSON object whose command is none of the ten recognized names
\* (or is missing) is answered by exactly one type=error line whose message
\* contains the command as formatted, without any backend call, with the
\* Session unchanged and the loop still reading.
C13_UnknownCommandAnswered ==
    [][ (/\ nread' = nread + 1
         /\ IsObjectLine(line')
         /\ \A name \in CommandNames :
                Field(line', "command", None) # CommandName(name))
        => /\ Len(out') = 1
           /\ out'[1].type = "error"
           /\ Embeds(out'[1].error, PyStr(Field(line', "command", None)))
           /\ calls' = <<>>
           /\ Session' = Session
           /\ pc' = "reading" ]_vars

C13_Witness ==
    /\ IsCommand(line, "unknown")
    /\ Field(line, "command", None) = Str(<<"frobnicate">>)
    /\ model # None
    /\ out = <<[type |-> "error", error |-> <<"Unknown command: ", "frobnicate">>]>>
    /\ pc = "reading"
    /\ nread < MaxLines

\* The fields handle_command requires of a command.
RequiredFields(name) ==
    CASE name = "load-model" -> {"model_path"}
      [] name \in {"generate-tags", "summarize"} -> {"content"}
      [] name = "chat" -> {"messages"}
      [] name \in {"generate-transcript", "copilot-analyze"} -> {"audio_path"}
      [] name = "download-model" -> {"repo_id", "destination"}
      [] OTHER -> {}

\* The required fields that line l lacks or carries empty.
MissingFields(l, name) ==
    {f \in RequiredFields(name) : ~Truthy(Field(l, f, None))}

\* C14: a command that lacks a required field (absent or empty) is answered
\* by one type=error line "Missing ..." naming a missing field, with no
\* loader, inference, decoder or download call and the Session unchanged;
\* a copilot-analyze that carries audio_path but no context is not refused
\* for it and runs with the empty context.
C14_MissingFieldShortCircuits ==
    [][ nread' = nread + 1
        => /\ \A name \in CommandNames :
                (IsCommand(line', name) /\ MissingFields(line', name) # {})
                => /\ Len(out') = 1
                   /\ out'[1].type = "error"
                   /\ out'[1].error[1] = "Missing "
                   /\ \E f \in MissingFields(line', name) : Contains(out'[1].error, f)
                   /\ calls' = <<>>
                   /\ Session' = Session
           /\ (/\ IsCommand(line', "copilot-analyze")
               /\ MissingFields(line', "copilot-analyze") = {}
               /\ "context" \notin DOMAIN line'.value.v)
              => /\ out'[1].type = "error" => out'[1].error[1] # "Missing "
                 /\ \A i \in CallsTo(calls', {"apply_chat_template"}) :
                        calls'[i].prompt = InitialTemplate
                 /\ ZeroSampleDecode(calls') => out'[1].updated_summary = EmptyStr ]_vars

C14_Witness ==
    /\ IsCommand(line, "download-model")
    /\ "repo_id" \in DOMAIN line.value.v
    /\ "destination" \notin DOMAIN line.value.v
    /\ model # None
    /\ out = <<[type |-> "error", command |-> "download-model",
                error |-> <<"Missing ", "repo_id", " or ", "destination">>]>>
    /\ calls = <<>>

\* The generation call of the latest iteration returned text.
GenerateReturned(c) ==
    \E i \in CallsTo(c, {"generate"}) :
        "outcome" \in DOMAIN c[i] /\ c[i].outcome = "returns"

\* C15 (as claimed): whenever generation for generate-transcript or
\* copilot-analyze returns text, whatever the text, the response is
\* type=response.
C15_ModelTextNeverAnError ==
    \A name \in AudioCommands :
        (IsCommand(line, name) /\ GenerateReturned(calls))
        => /\ Len(out) = 1
           /\ out[1].type = "response"

\* An external call of the latest iteration raised.
SomeCallRaised(c) ==
    \E i \in 1..Len(c) : "outcome" \in DOMAIN c[i] /\ c[i].outcome = "raises"

C17_StartupGate ==
    [][ /\ pc = "startup"
           => IF host.machine # "arm64" \/ ~host.mlx_imports
              THEN /\ Len(out') = 1
                   /\ out'[1].type = "error"
                   /\ exit_status' \notin {None, Num(0)}
                   /\ pc' = "exited"
                   /\ nread' = 0
              ELSE /\ pc' = "reading"
                   /\ out' = <<>>
                   /\ exit_status' = None
        /\ pc = "exited" => UNCHANGED vars
        /\ (pc = "reading" /\ pc' \in {"shutdown", "eof"}) => exit_status' = Num(0)
        /\ pc = "reading" /\ pc' = "reading" => exit_status' = None
        /\ pc \in {"shutdown", "eof"} => UNCHANGED vars ]_vars

C17_Witness ==
    /\ pc = "exited"
    /\ host.machine = "x86_64"
    /\ exit_status = Num(1)
    /\ nread = 0
    /\ Len(out) = 1
    /\ out[1].type = "error"

\* C18: generate-transcript on a resident audio model whose .wav or .pcm
\* file decodes to zero samples answers {type=response, language="unknown",
\* transcript=""} without chat template or generation.
C18_EmptyAudioTranscript ==
    (/\ IsCommand(line, "generate-transcript")
     /\ model # None
     /\ Contains(loaded_with, "audio")
     /\ ZeroSampleDecode(calls))
    => /\ \/ EndsWith(Field(line, "audio_path", None).v, <<".wav">>)
          \/ EndsWith(Field(line, "audio_path", None).v, <<".pcm">>)
       /\ out = <<[type |-> "response", command |-> "generate-transcript",
                   language |-> Str(<<"unknown">>), transcript |-> Str(<<>>)]>>
       /\ CallsTo(calls, {"apply_chat_template", "generate"}) = {}

C18_Witness ==
    /\ IsCommand(line, "generate-transcript")
    /\ Field(line, "audio_path", None) = Str(<<"seg", ".pcm">>)
    /\ model # None
    /\ Contains(loaded_with, "audio")
    /\ ZeroSampleDecode(calls)
    /\ out[1].transcript = Str(<<>>)

\* C19 (as claimed): every written line has type response, error or
\* progress; a type=error line carries an error string and nothing but
\* type, command, error and traceback; a type=response line carries no
\* error field.
C19_NoMixedSuccessAndError ==
    \A i \in 1..Len(out) :
        /\ out[i].type \in {"response", "error", "progress"}
        /\ out[i].type = "error"
           => /\ "error" \in DOMAIN out[i]
              /\ DOMAIN out[i] \subseteq {"type", "command", "error", "traceback"}
        /\ out[i].type = "response" => "error" \notin DOMAIN out[i]

\* C20: every successful generate-tags response carries at most 5 tags,
\* each a non-empty string, whatever text the model returned.
C20_AtMostFiveNonEmptyTags ==
    (/\ IsCommand(line, "generate-tags")
     /\ Len(out) = 1
     /\ out[1].type = "response")
    => /\ Len(out[1].tags) <= 5
       /\ \A i \in 1..Len(out[1].tags) : out[1].tags[i] # <<>>

C20_Witness ==
    /\ IsCommand(line, "generate-tags")
    /\ Len(out) = 1
    /\ out[1].type = "response"
    /\ out[1].tags = <<<<"t1">>, <<"t2">>, <<"t3">>, <<"t4">>, <<"t5">>>>

\* C21 (as claimed): on every path of generate-transcript and
\* copilot-analyze that reaches inference, the embedding queue of the
\* resident model is empty when the prompt is built, for both structure
\* conventions and after any earlier call.
C21_QueueClearedBeforeInference ==
    \A name \in AudioCommands :
        IsCommand(line, name)
        => \A i \in CallsTo(calls, {"apply_chat_template"}) :
              calls[i].queue = <<>>

C23_EmptyCapabilitiesMeansNoModel ==
    capabilities = <<>> => model = None

\* The loader calls of a call log made to the given loader.
LoaderCalls(c, loader) == {i \in CallsTo(c, {"load"}) : c[i].loader = loader}

\* C24: a load-model that carries model_path calls the multimodal loader
\* exactly when "audio" is declared and mlx_lm_omni is available, the text
\* loader exactly when "audio" is not declared (["text"] being declared when
\* capabilities is absent), at most one loader, and with the given path.
C24_LoaderFollowsDeclaredCapabilities ==
    [][ (/\ nread' = nread + 1
         /\ IsCommand(line', "load-model")
         /\ Truthy(Field(line', "model_path", None)))
        => LET declared ==
                   IF "capabilities" \in DOMAIN line'.value.v
                   THEN line'.value.v.capabilities.v ELSE <<"text">>
               audio == Contains(declared, "audio")
           IN  /\ LoaderCalls(calls', "mlx_lm_omni") # {} <=> (audio /\ OMNI_AVAILABLE)
               /\ LoaderCalls(calls', "mlx_lm") # {} <=> ~audio
               /\ Len(calls') <= 1
               /\ \A i \in 1..Len(calls') :
                      /\ calls'[i].fn = "load"
                      /\ calls'[i].path = Field(line', "model_path", None) ]_vars

C24_Witness ==
    /\ IsCommand(line, "load-model")
    /\ "capabilities" \notin DOMAIN line.value.v
    /\ Len(calls) = 1
    /\ calls[1].loader = "mlx_lm"
    /\ model # None
    /\ model.loader = "mlx_lm"
    /\ capabilities = <<"text">>

\* The text the generation call of the latest iteration returned.
GeneratedText(c) ==
    LET i == CHOOSE i \in CallsTo(c, {"generate"}) : c[i].outcome = "returns"
    IN  c[i].text

\* The lines of a generated text that are left when a text that starts with
\* a fence marker loses its fence lines.
UnfencedLines(t) ==
    IF t # <<>> /\ t[1].fence THEN SelectSeq(t, LAMBDA l : ~l.fence) ELSE t

\* What the unfenced text is as JSON: the value of its single line.
UnfencedJson(t) ==
    IF Len(UnfencedLines(t)) = 1 /\ ~UnfencedLines(t)[1].fence
    THEN UnfencedLines(t)[1].json ELSE Invalid

CopilotStringFields == {"new_content", "updated_summary"}
CopilotListFields ==
    {"key_points", "decisions", "action_items", "open_questions",
     "suggested_questions", "key_concepts"}

WrittenTags(es) ==
    SelectSeq([i \in 1..Len(es) |-> Strip(es[i].str)], LAMBDA t : t # <<>>)

\* C27: for a text whose first bracketed span is a JSON array, _parse_tags
\* returns the array's elements as strings, trimmed, without the empty ones,
\* in order, whatever stands before the array and after it; this is not what
\* the fallback would give for elements that hold a comma or a bracket.
\* 'Sure! ["a", "b", "c"]' gives [a, b, c] and '[]' gives [].
C27_StrictTierReturnsArrayElements ==
    pc = "parsed"
    => /\ line.written => out = <<WrittenTags(line.elements)>>
       /\ line.response = <<"Sure!", " ", "[", "\"", "a", "\"", ",", " ",
                            "\"", "b", "\"", ",", " ", "\"", "c", "\"", "]">>
          => out = << << <<"a">>, <<"b">>, <<"c">> >> >>
       /\ line.response = <<"[", "]">> => out = << <<>> >>

\* An array with a comma inside an element, a suffix that holds a second
\* "]", parsed into its two elements.
C27_Witness ==
    /\ pc = "parsed"
    /\ line.written
    /\ line.response = <<"Sure!", " ", "[", "\"", "a", ",", "b", "\"", ",",
                         "\"", "c", "\"", "]", " ", "]">>
    /\ out = << << <<"a", ",", "b">>, <<"c">> >> >>

\* The first bracketed span of the text is a JSON array.
StrictTierApplies(response) ==
    LET span == BracketSpan(Strip(response))
    IN  span # <<>> /\ JsonLoadsArray(span).ok

\* The fallback as it is described: one leading "[" and one trailing "]"
\* are removed if present, the rest is split on newlines and commas, each
\* piece loses its surrounding whitespace and quote characters, and the
\* empty pieces are left out.
SinglePairFallback(response) ==
    LET text == Strip(response)
        a == IF text # <<>> /\ text[1] = "[" THEN Tail(text) ELSE text
        b == IF a # <<>> /\ a[Len(a)] = "]" THEN SubSeq(a, 1, Len(a) - 1) ELSE a
        pieces == Split(ReplaceNewlines(b), ",")
        tags == [i \in 1..Len(pieces) |->
                    StripChars(Strip(pieces[i]), {"\"", "'"})]
    IN  SelectSeq(tags, LAMBDA t : t # <<>>)

\* C28: when the first bracketed span of the text is not a JSON array,
\* _parse_tags returns what is left of the text once a single leading "["
\* and a single trailing "]" are removed, split on newlines and commas, the
\* pieces trimmed of whitespace and quotes and the empty ones dropped.
C28_FallbackRemovesSinglePair ==
    (pc = "parsed" /\ ~StrictTierApplies(line.response))
    => out = <<SinglePairFallback(line.response)>>

\* C29 (as claimed): with a resident model, capabilities is the list declared
\* by the load-model command that loaded it; generate-transcript and
\* copilot-analyze call the decoder or the backend only when the resident
\* model was loaded with "audio" declared.
C29_CapabilitiesBelongToResidentModel ==
    /\ model # None => capabilities = loaded_with
    /\ \A name \in AudioCommands :
          (IsCommand(line, name) /\ calls # <<>>)
          => (model # None /\ Contains(loaded_with, "audio"))

\* run() is over: the script exited at startup, or the loop ended on a
\* shutdown command or at the end of the input.
RunEnded == pc \in {"exited", "shutdown", "eof"}

\* C30: run() eventually ends; until then every step of the loop either
\* consumes exactly the next line of the input, and ends the loop exactly
\* when that line is a shutdown command, or finds the input exhausted and
\* ends the loop without consuming anything; once ended, nothing is read.
C30_RunTerminates ==
    /\ <>RunEnded
    /\ [][ /\ RunEnded => UNCHANGED vars
           /\ pc = "startup" => (nread' = nread /\ pc' \in {"reading", "exited"})
           /\ pc = "reading"
              => \/ /\ nread' = nread + 1
                    /\ pc' = IF IsCommand(line', "shutdown")
                             THEN "shutdown" ELSE "reading"
                 \/ /\ nread' = nread
                    /\ pc' = "eof" ]_vars

\* The input ended after MaxLines lines were consumed, a model loaded on
\* the way.
C30_Witness ==
    /\ pc = "eof"
    /\ nread = MaxLines
    /\ model # None
    /\ exit_status = Num(0)

====
